---- MODULE Spec2Model ----
(***************************************************************************)
(* Model of src/utils/detect.js of yolov8-seg-tfjs: preprocess, the        *)
(* detectFrame cycle (decode, NMS, gather, mask reconstruction, render,    *)
(* callback, engine scope) and the detectVideo animation-frame driver.     *)
(*                                                                         *)
(* Conventions.  Model-space box coordinates are kept in HALF pixels       *)
(* (y1 = cy - h/2 is a half-integer for integer cy, h), ratios are kept    *)
(* as fractions [num, den], and Math.floor / Math.round are computed       *)
(* exactly on fractions.  Sequences are 1-based, so tensor row k of the    *)
(* source is element k+1 here; class indices stay 0-based as in the        *)
(* source.  One action is one run-to-completion segment of JavaScript:     *)
(* from a task's start to the next await or to its return.                 *)
(***************************************************************************)
EXTENDS Integers, Sequences, FiniteSets, TLC

VARIABLES
    model,        \* the loaded model handle: inputShape, outputShape
    driver,       \* "video" (detectVideo) or "image" (detectFrame called directly)
    called,       \* the entry point has been invoked
    vidSource,    \* the source element: videoWidth, videoHeight, srcObject
    rafQueue,     \* pending requestAnimationFrame(detect) callbacks
    inFlight,     \* detectFrame executions started and not yet settled
    phase,        \* suspension point of the cycle: "none", "nms", "data"
    result,       \* how the last cycle settled
    scopes,       \* open tf.engine() scopes
    driverClears, \* canvas clears done by the stopped branch of detect
    cbCount,      \* callback invocations of the current cycle
    input,        \* what preprocess returned for the current cycle
    transRes,     \* raw detection rows of the current cycle
    nms,          \* index list returned by nonMaxSuppressionAsync
    toDraw,       \* Detection records of the current cycle
    overlay,      \* layers painted on the zero overlay, in order
    slices,       \* masks.slice calls issued by the loop
    pads,         \* upsampleProto.pad calls issued by the loop
    canvas        \* what the canvas shows

vars == <<model, driver, called, vidSource, rafQueue, inFlight, phase, result,
          scopes, driverClears, cbCount, input, transRes, nms, toDraw,
          overlay, slices, pads, canvas>>

locals == <<input, transRes, nms, toDraw, overlay, slices, pads>>

----------------------------------------------------------------------------
(* Bounds *)

MaxRows == 2      \* candidate rows in one model output (video specification)
MaxSide == 4      \* largest image side of the small model's sources
MaxBox  == 4      \* largest box width / height of the small model's rows

----------------------------------------------------------------------------
(* Arithmetic of the source *)

Max(a, b) == IF a >= b THEN a ELSE b

\* Math.floor(n / d), d > 0
Floor(n, d) == n \div d

\* Math.round(n / d), d > 0: halves round towards +infinity
Round(n, d) == (2 * n + d) \div (2 * d)

----------------------------------------------------------------------------
(* Models, labels, sources and model outputs *)

labels == <<"person", "bicycle">>

numClass == Len(labels)

RealModel == [inputShape |-> <<1, 640, 640, 3>>, outputShape |-> <<1, 160, 160, 32>>]

SmallModel == [inputShape |-> <<1, 8, 6, 3>>, outputShape |-> <<1, 4, 3, 2>>]

modelHeight(m) == m.inputShape[2]
modelWidth(m) == m.inputShape[3]
modelSegHeight(m) == m.outputShape[2]
modelSegWidth(m) == m.outputShape[3]

\* frame sizes <<width, height>> a source of the model can show
FrameSizes(m) ==
    IF m = RealModel
    THEN {<<640, 480>>, <<480, 640>>}
    ELSE (1..MaxSide) \X (1..MaxSide)

Stopped == [videoWidth |-> 0, videoHeight |-> 0, srcObject |-> "null"]

Loading == [videoWidth |-> 0, videoHeight |-> 0, srcObject |-> "stream"]

Playing(m) ==
    {[videoWidth |-> f[1], videoHeight |-> f[2], srcObject |-> s] :
        f \in FrameSizes(m), s \in {"null", "stream"}}

SourceStates(m) == {Stopped, Loading} \cup Playing(m)

\* raw rows (cx, cy, w, h, class scores in tenths, mask coefficients)
RealRows ==
    { [cx |-> 320, cy |-> 320, w |-> 100, h |-> 100, scores |-> <<9, 1>>, coef |-> "m1"],
      [cx |-> 320, cy |-> 400, w |-> 100, h |-> 200, scores |-> <<2, 7>>, coef |-> "m2"],
      [cx |-> 320, cy |-> 320, w |-> 100, h |-> 700, scores |-> <<5, 5>>, coef |-> "m3"],
      [cx |-> 100, cy |-> 100, w |-> 50,  h |-> 50,  scores |-> <<3, 8>>, coef |-> "m4"],
      [cx |-> 500, cy |-> 300, w |-> 60,  h |-> 60,  scores |-> <<1, 1>>, coef |-> "m5"] }

SmallRows ==
    { [cx |-> cx, cy |-> cy, w |-> w, h |-> h, scores |-> <<2, 7>>, coef |-> "m1"] :
        cx \in 0..modelWidth(SmallModel), cy \in 0..modelHeight(SmallModel),
        w \in 1..MaxBox, h \in 1..MaxBox }

SeqsUpTo(S, n) == UNION { [1..k -> S] : k \in 0..n }

\* outputs model.net.execute can return
ModelOutputs(m) ==
    IF m = RealModel THEN SeqsUpTo(RealRows, MaxRows) ELSE SeqsUpTo(SmallRows, 1)

----------------------------------------------------------------------------
(* preprocess *)

\* preprocess with the two paddings exchanged
preprocessSwapped(source, mWidth, mHeight) ==
    LET h == source.videoHeight
        w == source.videoWidth
        maxSize == Max(w, h)
        padding == << <<0, maxSize - w>>, <<0, maxSize - h>>, <<0, 0>> >>
    IN [ padding |-> padding,
         padded  |-> << padding[1][1] + h + padding[1][2],
                        padding[2][1] + w + padding[2][2] >>,
         resize  |-> <<mWidth, mHeight>>,
         xRatio  |-> [num |-> maxSize, den |-> w],
         yRatio  |-> [num |-> maxSize, den |-> h] ]

\* img.pad(...), the ratios, and the resize target of one frame
preprocess(source, mWidth, mHeight) ==
    LET h == source.videoHeight
        w == source.videoWidth
        maxSize == Max(w, h)
        padding == << <<0, maxSize - h>>, <<0, maxSize - w>>, <<0, 0>> >>
    IN [ padding |-> padding,
         padded  |-> << padding[1][1] + h + padding[1][2],
                        padding[2][1] + w + padding[2][2] >>,
         resize  |-> <<mWidth, mHeight>>,
         xRatio  |-> [num |-> maxSize, den |-> w],
         yRatio  |-> [num |-> maxSize, den |-> h] ]

NoInput == [ padding |-> << <<0, 0>>, <<0, 0>>, <<0, 0>> >>, padded |-> <<0, 0>>,
             resize |-> <<0, 0>>,
             xRatio |-> [num |-> 1, den |-> 1], yRatio |-> [num |-> 1, den |-> 1] ]

----------------------------------------------------------------------------
(* decode, gather *)

\* [y1, x1, y2, x2] of every row, in half pixels
boxes(rows) ==
    [ k \in 1..Len(rows) |->
        LET w == 2 * rows[k].w
            h == 2 * rows[k].h
            x1 == 2 * rows[k].cx - rows[k].w
            y1 == 2 * rows[k].cy - rows[k].h
        IN <<y1, x1, y1 + h, x1 + w>> ]

\* rawScores.max(1)
scores(rows) ==
    [ k \in 1..Len(rows) |->
        CHOOSE v \in { rows[k].scores[c] : c \in 1..numClass } :
            \A c \in 1..numClass : rows[k].scores[c] <= v ]

\* rawScores.argMax(1): the first class holding the maximum, 0-based
classes(rows) ==
    [ k \in 1..Len(rows) |->
        (CHOOSE c \in 1..numClass :
            /\ \A d \in 1..numClass : rows[k].scores[d] <= rows[k].scores[c]
            /\ \A d \in 1..(c - 1) : rows[k].scores[d] < rows[k].scores[c]) - 1 ]

\* gather that takes the leading rows instead of the indexed ones
gatherLeading(t, indices) == [ i \in 1..Len(indices) |-> t[i] ]

\* t.gather(indices, 0)
gather(t, indices) == [ i \in 1..Len(indices) |-> t[indices[i]] ]

\* rows [y1, x1, y2, x2, score, class] of the selected detections
detReady(rows, sel) ==
    LET b == gather(boxes(rows), sel)
        s == gather(scores(rows), sel)
        c == gather(classes(rows), sel)
    IN [ i \in 1..Len(sel) |-> b[i] \o <<s[i], c[i]>> ]

\* one reconstructed mask [modelSegHeight, modelSegWidth] per selected
\* detection; the mask is a function of the row's coefficients only
masks(rows, sel) ==
    gather([ k \in 1..Len(rows) |-> rows[k].coef ], sel)

----------------------------------------------------------------------------
(* non-max suppression *)

\* intersection and union areas of two boxes [y1, x1, y2, x2]
interArea(a, b) ==
    LET ih == (IF a[3] <= b[3] THEN a[3] ELSE b[3]) - Max(a[1], b[1])
        iw == (IF a[4] <= b[4] THEN a[4] ELSE b[4]) - Max(a[2], b[2])
    IN IF ih > 0 /\ iw > 0 THEN ih * iw ELSE 0

unionArea(a, b) ==
    (a[3] - a[1]) * (a[4] - a[2]) + (b[3] - b[1]) * (b[4] - b[2]) - interArea(a, b)

\* index lists tf.image.nonMaxSuppressionAsync(boxes, scores, 500, 0.45, 0.2)
\* can resolve to: at most 500 distinct rows, by descending score, none
\* below the score threshold, no two overlapping by more than the IoU
\* threshold, and every row left out is below the score threshold or
\* overlaps a selected row of at least its score
NmsResults(bxs, scs) ==
    { s \in SeqsUpTo(1..Len(bxs), Len(bxs)) :
        /\ Len(s) <= 500
        /\ \A i, j \in 1..Len(s) : i # j => s[i] # s[j]
        /\ \A i \in 1..Len(s) : scs[s[i]] >= 2
        /\ \A i, j \in 1..Len(s) : i < j =>
              /\ scs[s[i]] >= scs[s[j]]
              /\ 100 * interArea(bxs[s[i]], bxs[s[j]])
                    <= 45 * unionArea(bxs[s[i]], bxs[s[j]])
        /\ \A k \in 1..Len(bxs) :
              (scs[k] > 2 /\ \A i \in 1..Len(s) : s[i] # k) =>
                  \E i \in 1..Len(s) :
                      /\ scs[s[i]] >= scs[k]
                      /\ 100 * interArea(bxs[s[i]], bxs[k])
                            >= 45 * unionArea(bxs[s[i]], bxs[k]) }

----------------------------------------------------------------------------
(* the per-detection loop *)

downSampleBox(row, m) ==
    << Floor(row[1] * modelSegHeight(m), 2 * modelHeight(m)),
       Floor(row[2] * modelSegWidth(m), 2 * modelWidth(m)),
       Round((row[3] - row[1]) * modelSegHeight(m), 2 * modelHeight(m)),
       Round((row[4] - row[2]) * modelSegWidth(m), 2 * modelWidth(m)) >>

\* upSampleBox with the two ratios exchanged
upSampleBoxSwapped(row, xRatio, yRatio) ==
    << Floor(row[1] * xRatio.num, 2 * xRatio.den),
       Floor(row[2] * yRatio.num, 2 * yRatio.den),
       Round((row[3] - row[1]) * xRatio.num, 2 * xRatio.den),
       Round((row[4] - row[2]) * yRatio.num, 2 * yRatio.den) >>

upSampleBox(row, xRatio, yRatio) ==
    << Floor(row[1] * yRatio.num, 2 * yRatio.den),
       Floor(row[2] * xRatio.num, 2 * xRatio.den),
       Round((row[3] - row[1]) * yRatio.num, 2 * yRatio.den),
       Round((row[4] - row[2]) * xRatio.num, 2 * xRatio.den) >>

\* begin and size handed to masks.slice for detection i (spatial axes)
protoSlice(i, d, m) ==
    [ i     |-> i,
      begin |-> << IF d[1] >= 0 THEN d[1] ELSE 0,
                   IF d[2] >= 0 THEN d[2] ELSE 0 >>,
      size  |-> << IF d[1] + d[3] <= modelSegHeight(m)
                     THEN d[3] ELSE modelSegHeight(m) - d[1],
                   IF d[2] + d[4] <= modelSegWidth(m)
                     THEN d[4] ELSE modelSegWidth(m) - d[2] >> ]

\* paddings handed to upsampleProto.pad for detection i (spatial axes)
maskPad(i, u, m) ==
    [ i       |-> i,
      padding |-> << <<u[1], modelHeight(m) - (u[1] + u[3])>>,
                     <<u[2], modelWidth(m) - (u[2] + u[4])>> >>,
      shape   |-> << u[1] + u[3] + (modelHeight(m) - (u[1] + u[3])),
                     u[2] + u[4] + (modelWidth(m) - (u[2] + u[4])) >> ]

\* tf slice accepts a region inside the tensor; a size of -1 means
\* "to the end", any other negative size is rejected
sliceAccepted(s, m) ==
    LET shape == <<modelSegHeight(m), modelSegWidth(m)>>
    IN \A a \in 1..2 :
        LET size == IF s.size[a] = -1 THEN shape[a] - s.begin[a] ELSE s.size[a]
        IN /\ s.begin[a] >= 0
           /\ size >= 0
           /\ s.begin[a] + size <= shape[a]

\* tf pad documents no behaviour for a negative amount: a checking backend
\* rejects it, another one crops; a mask of another shape than the overlay
\* is always rejected by overlay.where
padAccepted(p, m, checked) ==
    /\ checked => \A a \in 1..2 : p.padding[a][1] >= 0 /\ p.padding[a][2] >= 0
    /\ p.shape = <<modelHeight(m), modelWidth(m)>>

NoLoop == [toDraw |-> <<>>, overlay |-> <<>>, slices |-> <<>>, pads |-> <<>>,
           threw |-> "no"]

\* for (let i = 0; i < detReady.shape[0]; i++) { ... }, from iteration i on
RECURSIVE loop(_, _, _, _, _, _, _)
loop(i, acc, det, msk, in, m, checked) ==
    IF i > Len(det) \/ acc.threw # "no" THEN acc
    ELSE
      LET rowData == det[i]
          score == rowData[5]
          label == rowData[6]
          d == downSampleBox(rowData, m)
          u == upSampleBox(rowData, in.xRatio, in.yRatio)
          s == protoSlice(i, d, m)
          p == maskPad(i, u, m)
          sliced == [acc EXCEPT !.slices = Append(@, s)]
          padded == [sliced EXCEPT !.pads = Append(@, p)]
      IN IF ~sliceAccepted(s, m)
           THEN [sliced EXCEPT !.threw = "slice"]
         ELSE IF ~padAccepted(p, m, checked)
           THEN [padded EXCEPT !.threw = "pad"]
         ELSE loop(i + 1,
                   [padded EXCEPT
                      !.overlay = Append(@, [mask |-> msk[i], at |-> u, color |-> label]),
                      !.toDraw = Append(@, [box |-> u, score |-> score, klass |-> label,
                                            label |-> labels[label + 1],
                                            color |-> label])],
                   det, msk, in, m, checked)

----------------------------------------------------------------------------
(* detectFrame *)

Blank == [img |-> <<>>, boxes |-> <<>>]

\* the callback detectFrame was given: detectVideo passes
\* () => requestAnimationFrame(detect), an image caller the default () => {}
callback(q) == IF driver = "video" THEN q + 1 ELSE q

\* frameRuns that requests the next animation frame at once instead of
\* leaving it to the callback
frameRunsEager(q) ==
    /\ vidSource.videoWidth > 0
    /\ \E out \in ModelOutputs(model) :
          /\ transRes' = out
          /\ input' = preprocess(vidSource, modelWidth(model), modelHeight(model))
    /\ scopes' = scopes + 1
    /\ inFlight' = inFlight + 1
    /\ phase' = "nms"
    /\ result' = "running"
    /\ cbCount' = 0
    /\ rafQueue' = q + 1
    /\ nms' = <<>> /\ toDraw' = <<>> /\ overlay' = <<>>
    /\ slices' = <<>> /\ pads' = <<>>
    /\ UNCHANGED <<model, driver, vidSource, driverClears, canvas>>

\* detectFrame up to its first await: startScope, preprocess, execute,
\* decode, and the call of nonMaxSuppressionAsync; q is the animation-frame
\* queue the caller leaves behind
frameRuns(q) ==
    /\ vidSource.videoWidth > 0
    /\ \E out \in ModelOutputs(model) :
          /\ transRes' = out
          /\ input' = preprocess(vidSource, modelWidth(model), modelHeight(model))
    /\ scopes' = scopes + 1
    /\ inFlight' = inFlight + 1
    /\ phase' = "nms"
    /\ result' = "running"
    /\ cbCount' = 0
    /\ rafQueue' = q
    /\ nms' = <<>> /\ toDraw' = <<>> /\ overlay' = <<>>
    /\ slices' = <<>> /\ pads' = <<>>
    /\ UNCHANGED <<model, driver, vidSource, driverClears, canvas>>

\* frameThrows that still runs the callback (as from a finally block)
frameThrowsCallsBack(q) ==
    /\ input' = IF vidSource.videoWidth > 0
                  THEN preprocess(vidSource, modelWidth(model), modelHeight(model))
                  ELSE NoInput
    /\ scopes' = scopes + 1
    /\ result' = "execute threw"
    /\ cbCount' = 1
    /\ rafQueue' = callback(q)
    /\ transRes' = <<>> /\ nms' = <<>> /\ toDraw' = <<>> /\ overlay' = <<>>
    /\ slices' = <<>> /\ pads' = <<>>
    /\ UNCHANGED <<model, driver, vidSource, inFlight, phase, driverClears, canvas>>

\* detectFrame when fromPixels finds no pixels or model.net.execute throws:
\* the exception leaves the async function, the promise is rejected
frameThrows(q) ==
    /\ input' = IF vidSource.videoWidth > 0
                  THEN preprocess(vidSource, modelWidth(model), modelHeight(model))
                  ELSE NoInput
    /\ scopes' = scopes + 1
    /\ result' = "execute threw"
    /\ cbCount' = 0
    /\ rafQueue' = q
    /\ transRes' = <<>> /\ nms' = <<>> /\ toDraw' = <<>> /\ overlay' = <<>>
    /\ slices' = <<>> /\ pads' = <<>>
    /\ UNCHANGED <<model, driver, vidSource, inFlight, phase, driverClears, canvas>>

detectFrame(q) == frameRuns(q) \/ frameThrows(q)

\* nonMaxSuppressionAsync resolves: gather, masks, the loop, and the call
\* of overlay.data()
NmsResolve ==
    /\ phase = "nms"
    /\ \E sel \in NmsResults(boxes(transRes), scores(transRes)), checked \in BOOLEAN :
         LET r == loop(1, NoLoop, detReady(transRes, sel), masks(transRes, sel),
                       input, model, checked)
         IN /\ nms' = sel
            /\ toDraw' = r.toDraw
            /\ overlay' = r.overlay
            /\ slices' = r.slices
            /\ pads' = r.pads
            /\ IF r.threw = "no"
                 THEN /\ phase' = "data"
                      /\ UNCHANGED <<inFlight, result>>
                 ELSE /\ phase' = "none"
                      /\ inFlight' = inFlight - 1
                      /\ result' = r.threw \o " threw"
    /\ UNCHANGED <<model, driver, called, vidSource, rafQueue, scopes,
                   driverClears, cbCount, input, transRes, canvas>>

\* DataResolve that runs the callback only when something was detected
DataResolveSkipsEmpty ==
    /\ phase = "data"
    /\ canvas' = [img |-> overlay, boxes |-> toDraw]
    /\ rafQueue' = IF toDraw = <<>> THEN rafQueue ELSE callback(rafQueue)
    /\ cbCount' = IF toDraw = <<>> THEN cbCount ELSE cbCount + 1
    /\ scopes' = scopes - 1
    /\ inFlight' = inFlight - 1
    /\ phase' = "none"
    /\ result' = "fulfilled"
    /\ UNCHANGED <<model, driver, called, vidSource, driverClears, locals>>

\* overlay.data() resolves: draw the overlay and the boxes, run the
\* callback, end the scope
DataResolve ==
    /\ phase = "data"
    /\ canvas' = [img |-> overlay, boxes |-> toDraw]
    /\ rafQueue' = callback(rafQueue)
    /\ cbCount' = cbCount + 1
    /\ scopes' = scopes - 1
    /\ inFlight' = inFlight - 1
    /\ phase' = "none"
    /\ result' = "fulfilled"
    /\ UNCHANGED <<model, driver, called, vidSource, driverClears, locals>>

----------------------------------------------------------------------------
(* detectVideo *)

\* detectStopped that keeps polling the source
detectStoppedPolls(q) ==
    /\ vidSource.videoWidth = 0 /\ vidSource.srcObject = "null"
    /\ canvas' = Blank
    /\ driverClears' = driverClears + 1
    /\ rafQueue' = q + 1
    /\ UNCHANGED <<model, driver, vidSource, inFlight, phase, result, scopes,
                   cbCount, locals>>

\* the stopped branch of detect: clear the canvas and return
detectStopped(q) ==
    /\ vidSource.videoWidth = 0 /\ vidSource.srcObject = "null"
    /\ canvas' = Blank
    /\ driverClears' = driverClears + 1
    /\ rafQueue' = q
    /\ UNCHANGED <<model, driver, vidSource, inFlight, phase, result, scopes,
                   cbCount, locals>>

detect(q) ==
    \/ detectStopped(q)
    \/ /\ ~(vidSource.videoWidth = 0 /\ vidSource.srcObject = "null")
       /\ detectFrame(q)

\* detectVideo(vidSource, model, canvasRef): the first detect() call
DetectVideo ==
    /\ driver = "video" /\ ~called
    /\ called' = TRUE
    /\ detect(rafQueue)

\* the host runs a requested animation-frame callback
Tick ==
    /\ rafQueue > 0
    /\ detect(rafQueue - 1)
    /\ UNCHANGED called

\* the page starts, stops or switches the video source
SourceChange ==
    /\ driver = "video"
    /\ \E s \in SourceStates(model) \ {vidSource} : vidSource' = s
    /\ UNCHANGED <<model, driver, called, rafQueue, inFlight, phase, result,
                   scopes, driverClears, cbCount, locals, canvas>>

\* detectFrame(image, model, canvasRef) called directly on an image
DetectImage ==
    /\ driver = "image" /\ ~called
    /\ called' = TRUE
    /\ detectFrame(rafQueue)

----------------------------------------------------------------------------
(* Specifications *)

InitCommon ==
    /\ called = FALSE
    /\ rafQueue = 0 /\ inFlight = 0 /\ phase = "none" /\ result = "none"
    /\ scopes = 0 /\ driverClears = 0 /\ cbCount = 0
    /\ input = NoInput
    /\ transRes = <<>> /\ nms = <<>> /\ toDraw = <<>> /\ overlay = <<>>
    /\ slices = <<>> /\ pads = <<>>
    /\ canvas = Blank

Init ==
    /\ model = RealModel
    /\ driver = "video"
    /\ vidSource \in SourceStates(model)
    /\ InitCommon

Next == DetectVideo \/ Tick \/ NmsResolve \/ DataResolve \/ SourceChange

Spec == Init /\ [][Next]_vars

InitImage ==
    /\ model \in {SmallModel, RealModel}
    /\ driver = "image"
    /\ vidSource \in { s \in Playing(model) : s.srcObject = "null" }
    /\ InitCommon

NextImage == DetectImage \/ NmsResolve \/ DataResolve

SpecImage == InitImage /\ [][NextImage]_vars

----------------------------------------------------------------------------
(* Properties *)

frameW == vidSource.videoWidth
frameH == vidSource.videoHeight

\* the model-space box (half pixels) lies inside the model input
InsideInput(b, m) ==
    /\ b[1] >= 0 /\ b[2] >= 0
    /\ b[3] <= 2 * modelHeight(m) /\ b[4] <= 2 * modelWidth(m)

\* the model-space box (half pixels) lies inside the part of the model
\* input that shows the frame and not its padding
InsideContent(b, in, m) ==
    /\ b[1] >= 0 /\ b[2] >= 0
    /\ b[3] * in.yRatio.num <= 2 * modelHeight(m) * in.yRatio.den
    /\ b[4] * in.xRatio.num <= 2 * modelWidth(m) * in.xRatio.den

\* C1: once a tick of the driver has seen the source stopped, the driver
\* has cleared the canvas exactly once, no animation frame is requested
\* and no detection cycle is in flight, in every later state, whatever
\* the source does
C1_StopIsFinal ==
    driverClears >= 1 =>
        /\ driverClears = 1
        /\ rafQueue = 0
        /\ inFlight = 0
        /\ phase = "none"

\* a cycle completed, then a tick saw the source stopped, and the source
\* is playing again
C1_Witness ==
    /\ driverClears = 1
    /\ result = "fulfilled"
    /\ vidSource \in Playing(model)

\* C2: at most one detection cycle is in flight; an animation frame is
\* requested only when no cycle is in flight and the finished cycle's
\* scope is closed, so a cycle never starts before the previous one ended
C2_OneCycleInFlight ==
    /\ inFlight <= 1
    /\ rafQueue + inFlight <= 1
    /\ (phase # "none") <=> (inFlight = 1)
    /\ rafQueue > 0 => scopes = 0

\* a second cycle is suspended at the overlay read-back after a first one
\* drew its detections
C2_Witness ==
    /\ inFlight = 1
    /\ phase = "data"
    /\ canvas # Blank
    /\ scopes = 1

C4_SliceInsideProto ==
    \A k \in 1..Len(slices) :
        /\ slices[k].begin[1] >= 0 /\ slices[k].begin[2] >= 0
        /\ slices[k].size[1] >= 0 /\ slices[k].size[2] >= 0
        /\ slices[k].begin[1] + slices[k].size[1] <= modelSegHeight(model)
        /\ slices[k].begin[2] + slices[k].size[2] <= modelSegWidth(model)

\* C5: the i-th Detection record and the i-th painted mask come from raw
\* row nms[i]: box, score, class, label and mask coefficients
C5_RowsCorrespond ==
    /\ (phase = "data" \/ result = "fulfilled") => Len(toDraw) = Len(nms)
    /\ Len(toDraw) <= Len(nms) /\ Len(overlay) = Len(toDraw)
    /\ \A i \in 1..Len(toDraw) :
          LET k == nms[i]
          IN /\ toDraw[i].box =
                   upSampleBox(boxes(transRes)[k], input.xRatio, input.yRatio)
             /\ toDraw[i].score = scores(transRes)[k]
             /\ toDraw[i].klass = classes(transRes)[k]
             /\ toDraw[i].label = labels[classes(transRes)[k] + 1]
             /\ overlay[i].mask = transRes[k].coef
             /\ overlay[i].at = toDraw[i].box

\* two different rows were selected in the reverse of their raw order and
\* both were drawn
C5_Witness ==
    /\ result = "fulfilled"
    /\ Len(toDraw) = 2
    /\ nms = <<2, 1>>
    /\ transRes[1].coef # transRes[2].coef
    /\ transRes[1].scores # transRes[2].scores

\* C6: when no detection cycle is in flight, no engine scope is open
C6_ScopesReleased ==
    inFlight = 0 => scopes = 0

\* C7: after the inference call of a video cycle failed, the callback of
\* that cycle was not run, no animation frame is requested and no cycle
\* is in flight
C7_FailureStopsLoop ==
    result = "execute threw" =>
        /\ cbCount = 0
        /\ rafQueue = 0
        /\ inFlight = 0
        /\ phase = "none"

\* the inference call failed on a playing source after an earlier cycle
\* had drawn its detections
C7_Witness ==
    /\ result = "execute threw"
    /\ vidSource \in Playing(model)
    /\ canvas # Blank

\* C8: a cycle whose NMS result is empty does not fail; it paints nothing,
\* draws a blank overlay and no box, runs its callback once, and the video
\* driver has the next tick requested
C8_EmptyNmsCompletes ==
    /\ (nms = <<>> /\ phase = "data") =>
          toDraw = <<>> /\ overlay = <<>> /\ slices = <<>> /\ pads = <<>>
    /\ nms = <<>> => result \notin {"slice threw", "pad threw"}
    /\ (nms = <<>> /\ result = "fulfilled") =>
          /\ canvas = Blank
          /\ cbCount = 1
          /\ driverClears = 0 => rafQueue = 1

\* the model produced a candidate row, NMS kept none, and the cycle
\* completed with the next tick requested
C8_Witness ==
    /\ result = "fulfilled"
    /\ transRes # <<>>
    /\ nms = <<>>
    /\ rafQueue = 1

\* C9: preprocess pads only at the bottom by max(W,H) - H and at the
\* right by max(W,H) - W, the padded frame is a square of side max(W,H),
\* and xRatio * W = yRatio * H = max(W,H)
C9_PadToSquare ==
    called =>
        LET side == IF frameW >= frameH THEN frameW ELSE frameH
        IN /\ input.padding = << <<0, side - frameH>>, <<0, side - frameW>>, <<0, 0>> >>
           /\ input.padded = <<side, side>>
           /\ input.xRatio.num * frameW = side * input.xRatio.den
           /\ input.yRatio.num * frameH = side * input.yRatio.den

\* a frame wider than high was preprocessed and padded at the bottom
C9_Witness ==
    /\ called
    /\ frameW > frameH
    /\ input.padding[1][2] > 0
    /\ input.padded[1] > frameH

\* C10: for a detection whose model-space box lies inside the model input
\* the paddings of its upsampled mask are all >= 0 and the padded mask has
\* the overlay's shape
C10_PaddingWellFormed ==
    \A k \in 1..Len(pads) :
        InsideInput(boxes(transRes)[nms[pads[k].i]], model) =>
            /\ \A a \in 1..2 : pads[k].padding[a][1] >= 0 /\ pads[k].padding[a][2] >= 0
            /\ pads[k].shape = <<modelHeight(model), modelWidth(model)>>

====
